---- MODULE Spec2Model ----
(***************************************************************************)
(* A model of the per-node telemetry session of                            *)
(* packages/backend/src/Node.ts: the Node object, its socket listeners,    *)
(* the handshake of Node.fromSocket, the timers it starts and the events   *)
(* it emits.                                                               *)
(*                                                                         *)
(* Conventions.                                                            *)
(*  - A JS string the code takes apart (an address, a voter field, the     *)
(*    encoded authority list) is a sequence of one-character strings.      *)
(*  - null/undefined is NULL for such strings, "null" for opaque strings   *)
(*    (hashes, network state) and NoNum for numbers.                       *)
(*  - The Node object is the record `node`; a method is an operator on an  *)
(*    execution context c = [n, ev, threw, timers, bf, prunes, ...]: the   *)
(*    object, the events emitted so far by the running handler, whether it *)
(*    has thrown, the pending coalescing timers and the calls of backfill  *)
(*    and truncateBlockCache it has made.                                  *)
(***************************************************************************)
EXTENDS Integers, Sequences, FiniteSets, TLC

VARIABLES
  phase,          \* fromSocket's promise: "handshaking", "active" (resolved), "rejected"
  hsTimer,        \* fromSocket's 5 s setTimeout is pending
  hsHandler,      \* fromSocket's handler is attached to the socket's 'message' event
  outcomes,       \* the calls of resolve and reject fromSocket has made, in order
  messages,       \* fromSocket's buffer of pre-handshake messages
  replayPending,  \* the constructor's process.nextTick callback has not run yet
  listening,      \* the Node's socket listeners are attached
  socketClosed,   \* socket.close()/terminate() have been called
  node,           \* the Node object's fields
  blockTimer,     \* updateBestBlock's 1 s setTimeout is pending
  pings,          \* pings sent and not yet answered: the times they were sent at
  now,            \* the clock read by timestamp()
  emitted,        \* the events emitted by the last step, in order
  threw,          \* the last handler ended by throwing
  disconnects,    \* how many times 'disconnect' has been emitted
  arrived,        \* how many socket messages have arrived on the connection
  processed,      \* arrival numbers of the messages onMessage has handled, in order
  lastOp,         \* the last operation: its name and what it was called with
  bf,             \* the calls of backfill made by the last step, in order
  prunes,         \* the calls of truncateBlockCache made by the last step, in order
  applied,        \* the last step applied a best-block update
  blockAt         \* the time of the latest 'block' event (NoNum: none yet)

vars == << phase, hsTimer, hsHandler, outcomes, messages, replayPending, listening,
           socketClosed, node, blockTimer, pings, now, emitted, threw, disconnects,
           arrived, processed, lastOp, bf, prunes, applied, blockAt >>

----------------------------------------------------------------------------
(* Bounds of the model *)

\* heights of consensus messages are 0..MaxHeight
MaxHeight == 3
\* the clock stops at MaxNow
MaxNow == 60002
\* the clock moves by single milliseconds at most MaxShortTicks times in a row
MaxShortTicks == 1
\* at most MaxPings pings are in flight
MaxPings == 2
\* 'disconnect' is counted up to MaxDisconnects
MaxDisconnects == 2
\* at most MaxArrivals messages arrive on a connection in the handshake model
MaxArrivals == 13
\* the clock of the best-block model stops at MaxBlockNow
MaxBlockNow == 3001
\* the clock of the burst model moves by BurstStep milliseconds
BurstStep == 500

(* Program constants *)

\* const TIMEOUT = 1000 * 60 * 1
TIMEOUT == 60000
\* MAX_BLOCKS_IN_NODE_CACHE = MAX_BLOCKS_IN_CHAIN_CACHE, imported from ./Chain;
\* the model runs it scaled down.
MAX_BLOCKS_IN_NODE_CACHE == 1
\* if (messages.length === 10) messages.shift()
HANDSHAKE_BUFFER == 10
\* if (blockTime > 100)
BLOCK_TIME_THRESHOLD == 100
\* setTimeout(..., 1000)
COALESCE_WINDOW == 1000

----------------------------------------------------------------------------
(* Values *)

NULL == << "NULL" >>
NoNum == -1
NoHash == "null"

\* JS truthiness of a Maybe<string>
Truthy(s) == s # NULL /\ s # << >>

\* String(x) of a Maybe<string>
StringOf(s) == IF s = NULL THEN << "n", "u", "l", "l" >> ELSE s

\* Block.ZERO
BlockZERO == [number |-> 0, hash |-> ""]

\* new Block(number, hash)
Block(number, hash) == [number |-> number, hash |-> hash]

\* {} as Types.ConsensusInfo: every field undefined
EmptyInfo ==
  [ Prevote |-> FALSE, Precommit |-> FALSE, Finalized |-> FALSE,
    ImplicitPrevote |-> FALSE, ImplicitPrecommit |-> FALSE, ImplicitFinalized |-> FALSE,
    FinalizedHash |-> NoHash, FinalizedHeight |-> NoNum, ImplicitPointer |-> NoNum ]

\* {}: a height's row with no voter in it
EmptyRow == [v \in {} |-> EmptyInfo]

\* f[k] = v, creating k
Put(f, k, v) == [x \in (DOMAIN f) \cup {k} |-> IF x = k THEN v ELSE f[x]]

\* the ascending sequence of a finite set of integers
RECURSIVE Ascending(_)
Ascending(S) ==
  IF S = {} THEN << >>
  ELSE LET m == CHOOSE x \in S : \A y \in S : x <= y
       IN << m >> \o Ascending(S \ {m})

\* Object.keys(this.consensusCache): integer keys come in ascending order
Keys(cache) == Ascending(DOMAIN cache)

\* a key list left in the order of Object.keys
NotReversed(s) == s

\* Array.prototype.reverse
Reverse(s) == [i \in 1..Len(s) |-> s[Len(s) + 1 - i]]

----------------------------------------------------------------------------
(* The consensus cache *)

initialiseConsensusView(cache, height, addr) ==
  LET c1 == IF height \in DOMAIN cache THEN cache ELSE Put(cache, height, EmptyRow)
  IN IF Truthy(addr) /\ addr \notin DOMAIN c1[height]
     THEN [c1 EXCEPT ![height] = Put(c1[height], addr, EmptyInfo)]
     ELSE c1

\* this.consensusCache[height][addr] is an object (not undefined)
HasInfo(cache, height, addr) == height \in DOMAIN cache /\ addr \in DOMAIN cache[height]

\* the body of markImplicitlyFinalized after initialiseConsensusView
ImplicitlyFinalizedInfo(info, finalizedHeight) ==
  [info EXCEPT !.Finalized = TRUE, !.FinalizedHeight = finalizedHeight,
               !.ImplicitFinalized = TRUE, !.Prevote = TRUE, !.Precommit = TRUE,
               !.ImplicitPrevote = TRUE, !.ImplicitPrecommit = TRUE]

\* the body of markFinalized without its last two assignments
FinalizedInfoNoVotes(info, finalizedHeight, finalizedHash) ==
  [info EXCEPT !.Finalized = TRUE, !.FinalizedHash = finalizedHash,
               !.FinalizedHeight = finalizedHeight]

\* the body of markFinalized after initialiseConsensusView
FinalizedInfo(info, finalizedHeight, finalizedHash) ==
  [info EXCEPT !.Finalized = TRUE, !.FinalizedHash = finalizedHash,
               !.FinalizedHeight = finalizedHeight,
               !.Prevote = TRUE, !.Precommit = TRUE]

----------------------------------------------------------------------------
(* backfill *)

\* the continuation predicate f(i) of a backfill call, named by the handler that
\* passes it; `from` is the height the handler's closure captured. Returns the
\* cache it leaves and whether to continue.
ApplyF(f, cache, address, voter, i, from) ==
  CASE f = "null" ->
         [cache |-> cache, cont |-> TRUE]
    [] f = "precommit" ->
         LET info == cache[i][voter]
         IN IF info.Precommit \/ info.ImplicitPrecommit
            THEN [cache |-> cache, cont |-> FALSE]
            ELSE [cache |-> [cache EXCEPT ![i][voter] =
                              [info EXCEPT !.ImplicitPrecommit = TRUE,
                                           !.ImplicitPointer = from]],
                  cont |-> TRUE]
    [] f = "prevote" ->
         LET info == cache[i][voter]
         IN IF info.Prevote \/ info.ImplicitPrevote
            THEN [cache |-> cache, cont |-> FALSE]
            ELSE [cache |-> [cache EXCEPT ![i][voter] =
                              [info EXCEPT !.ImplicitPrevote = TRUE,
                                           !.ImplicitPointer = from]],
                  cont |-> TRUE]
    [] f = "finalized" ->
         LET addr == StringOf(address)
             info == cache[i][addr]
         IN IF info.Finalized \/ info.ImplicitFinalized
            THEN [cache |-> cache, cont |-> FALSE]
            ELSE LET c1 == initialiseConsensusView(cache, i, address)
                 IN [cache |-> [c1 EXCEPT ![i][addr] =
                                 [ImplicitlyFinalizedInfo(c1[i][addr], i)
                                    EXCEPT !.ImplicitPointer = from]],
                     cont |-> TRUE]

\* the loop of backfill without its return at a height that has a row
RECURSIVE backfillLoopNoStop(_, _, _, _, _, _)
backfillLoopNoStop(w, address, voter, origin, f, firstBlockNumber) ==
  IF ~w.cont THEN [cache |-> w.cache, ret |-> w.from]
  ELSE IF ~(w.from > 0) THEN [cache |-> w.cache, ret |-> w.from - 1]
  ELSE LET from == w.from - 1
           c1 == initialiseConsensusView(w.cache, from, voter)
           r  == ApplyF(f, c1, address, voter, from, origin)
       IN IF from = firstBlockNumber
          THEN [cache |-> r.cache, ret |-> from]
          ELSE backfillLoopNoStop([cache |-> r.cache, from |-> from, cont |-> r.cont],
                                  address, voter, origin, f, firstBlockNumber)

\* while (cont && from-- > 0) { ... } return from; w = [cache, from, cont] is the
\* state before the loop's test
RECURSIVE backfillLoop(_, _, _, _, _, _)
backfillLoop(w, address, voter, origin, f, firstBlockNumber) ==
  IF ~w.cont THEN [cache |-> w.cache, ret |-> w.from]
  ELSE IF ~(w.from > 0) THEN [cache |-> w.cache, ret |-> w.from - 1]
  ELSE LET from == w.from - 1
       IN IF from \in DOMAIN w.cache
          THEN [cache |-> w.cache, ret |-> from]
          ELSE LET c1 == initialiseConsensusView(w.cache, from, voter)
                   r  == ApplyF(f, c1, address, voter, from, origin)
               IN IF from = firstBlockNumber
                  THEN [cache |-> r.cache, ret |-> from]
                  ELSE backfillLoop([cache |-> r.cache, from |-> from, cont |-> r.cont],
                                    address, voter, origin, f, firstBlockNumber)

\* backfill without its third early return (the check of height from - 1)
backfillResultNoGapCheck(cache, address, voter, from, f) ==
  IF ~Truthy(voter) THEN [cache |-> cache, ret |-> from]
  ELSE IF Len(Keys(cache)) <= 1 THEN [cache |-> cache, ret |-> from]
  ELSE backfillLoop([cache |-> cache, from |-> from, cont |-> TRUE],
                    address, voter, from, f, Keys(cache)[1])

\* backfill(voter, from, f): the cache it leaves and the height it returns
backfillResult(cache, address, voter, from, f) ==
  IF ~Truthy(voter) THEN [cache |-> cache, ret |-> from]
  ELSE IF Len(Keys(cache)) <= 1 THEN [cache |-> cache, ret |-> from]
  ELSE IF (from - 1) \notin DOMAIN cache THEN [cache |-> cache, ret |-> from]
  ELSE backfillLoop([cache |-> cache, from |-> from, cont |-> TRUE],
                    address, voter, from, f, Keys(cache)[1])

\* backfill as a step of the running handler; bf records the call: its arguments, the
\* height it returns, the heights that have a row before (pre) and after (post), and
\* the heights whose row it changed
backfill(c, voter, from, f) ==
  LET cache == c.n.consensusCache
      r == backfillResult(cache, c.n.address, voter, from, f)
  IN [c EXCEPT !.n.consensusCache = r.cache,
               !.bf = Append(@, [voter |-> voter, from |-> from, f |-> f, ret |-> r.ret,
                                 pre |-> DOMAIN cache, post |-> DOMAIN r.cache,
                                 changed |-> { h \in (DOMAIN cache) \cap (DOMAIN r.cache) :
                                                 cache[h] # r.cache[h] }])]

\* the heights truncateBlockCache deletes: those at an index above
\* MAX_BLOCKS_IN_NODE_CACHE + 1 of the reversed key list (indices from 0)
TruncatedHeights(cache) ==
  LET list == Reverse(Keys(cache))
  IN { list[j] : j \in { k \in 1..Len(list) : (k - 1) > MAX_BLOCKS_IN_NODE_CACHE + 1 } }

\* prunes records the call: the heights it deleted and the heights it kept
truncateBlockCache(c) ==
  LET cache == c.n.consensusCache
      keep  == (DOMAIN cache) \ TruncatedHeights(cache)
  IN [c EXCEPT !.n.consensusCache = [h \in keep |-> cache[h]],
               !.prunes = Append(@, [removed |-> (DOMAIN cache) \ keep, kept |-> keep])]

----------------------------------------------------------------------------
(* Messages *)

\* no best-block observation
NoUpdate == [present |-> FALSE, height |-> 0, best |-> "", ts |-> 0]

\* a BestBlock: { height, ts, best }
BestBlock(height, best, ts) == [present |-> TRUE, height |-> height, best |-> best, ts |-> ts]

\* a decoded message of kind msg with every field absent; id is the arrival number
\* the handshake model gives it (0: not numbered). hwChange stands for the result of
\* the five MeanList pushes of onSystemInterval.
Msg(msg) ==
  [ msg |-> msg, id |-> 0, valid |-> TRUE, update |-> NoUpdate,
    height |-> 0, hash |-> NoHash, voter |-> << >>,
    pubkey |-> NULL,
    network_state |-> "null", peers |-> 0, txcount |-> 0,
    finalized_height |-> NoNum, finalized_hash |-> NoHash,
    hw |-> FALSE, hwChange |-> FALSE,
    authorities |-> << >>, authority_set_id |-> 0 ]

\* getBestBlock(message), of ./message: the observation the message carries
getBestBlock(m) == m.update

\* parseMessage(data), of ./message: null for data that does not decode
parseMessage(d) == IF d.valid THEN d ELSE Msg("null")

IsNotQuote(ch) == ch # "\""

\* message_voter.replace(/"/g, '')
extractVoter(message_voter) == SelectSeq(message_voter, IsNotQuote)

IsNotSpace(ch) == ch # " "

\* JSON.parse accepts s: an array of one-character strings, spaces allowed
\* between the tokens
JSONvalid(s) ==
  LET t == SelectSeq(s, IsNotSpace)
      n == Len(t)
  IN /\ n >= 2
     /\ t[1] = "[" /\ t[n] = "]"
     /\ \/ n = 2
        \/ /\ (n - 2) % 4 = 3
           /\ \A i \in 2..(n - 1) :
                CASE (i - 1) % 4 = 1 -> t[i] = "\""
                  [] (i - 1) % 4 = 2 -> t[i] \notin {"[", "]", ",", "\"", " "}
                  [] (i - 1) % 4 = 3 -> t[i] = "\""
                  [] OTHER -> t[i] = ","

\* JSON.parse(s) of a valid s: the list of its strings
JSONparse(s) ==
  LET t == SelectSeq(s, IsNotSpace)
  IN [k \in 1..((Len(t) - 1) \div 4) |-> t[4 * k - 1]]

\* JSON.stringify(list) of a list of one-character strings
RECURSIVE JSONitems(_)
JSONitems(list) ==
  IF list = << >> THEN << >>
  ELSE IF Len(list) = 1 THEN << "\"", list[1], "\"" >>
  ELSE << "\"", list[1], "\"", "," >> \o JSONitems(Tail(list))

JSONstringify(list) == << "[" >> \o JSONitems(list) \o << "]" >>

----------------------------------------------------------------------------
(* The Node object *)

\* the fields of a Node after its constructor
NewNode(address, t) ==
  [ address |-> address, lastMessage |-> t,
    networkState |-> "null", peers |-> 0, txcount |-> 0,
    best |-> BlockZERO, finalized |-> BlockZERO,
    latency |-> 0, blockTime |-> 0, blockTimestamp |-> 0,
    lastBlockAt |-> NoNum, pingStart |-> 0, throttle |-> FALSE,
    consensusCache |-> [h \in {} |-> EmptyRow],
    authorities |-> << >>, authoritySetId |-> 0 ]

\* this.events.emit(event)
Emit(c, event) == [c EXCEPT !.ev = Append(@, event)]

\* the handler throws here
Throw(c) == [c EXCEPT !.threw = TRUE]

disconnect(c) ==
  Emit([c EXCEPT !.listening = FALSE, !.closed = TRUE], "disconnect")

getBlockTime(n, time) ==
  IF n.lastBlockAt = NoNum THEN 0 ELSE time - n.lastBlockAt

\* the test of updateBestBlock with its height comparison dropped
BestBlockAppliesAnyHeight(best, update) ==
  best.hash # update.best

\* this.best.hash !== best && this.best.number <= height
BestBlockApplies(best, update) ==
  best.hash # update.best /\ best.number <= update.height

\* a session that never reads its throttle as set
NeverThrottled(n) == FALSE

\* a session that always reads its throttle as set
AlwaysThrottled(n) == TRUE

\* this.throttle: a coalescing timer is pending
Throttled(n) == n.throttle

updateBestBlock(c, update, t) ==
  IF BestBlockApplies(c.n.best, update)
  THEN LET blockTime == getBlockTime(c.n, update.ts)
           c1 == [c EXCEPT !.applied = TRUE,
                           !.n.best = Block(update.height, update.best),
                           !.n.blockTimestamp = t,
                           !.n.lastBlockAt = update.ts,
                           !.n.blockTime = blockTime]
           c2 == IF blockTime > BLOCK_TIME_THRESHOLD THEN Emit(c1, "block")
                 ELSE IF ~Throttled(c1.n)
                      THEN [c1 EXCEPT !.n.throttle = TRUE,
                                      !.timers = Append(@, t + COALESCE_WINDOW)]
                      ELSE c1
       IN backfill(c2, c2.n.address, c2.n.best.number, "null")
  ELSE c

\* the test of onSystemInterval with >= for >
FinalizedAppliesOrEqual(finalized, m) ==
  /\ m.finalized_height # NoNum
  /\ m.finalized_hash # NoHash
  /\ m.finalized_height >= finalized.number

\* finalized != null && finalizedHash != null && finalized > this.finalized.number
FinalizedApplies(finalized, m) ==
  /\ m.finalized_height # NoNum
  /\ m.finalized_hash # NoHash
  /\ m.finalized_height > finalized.number

onSystemInterval(c, m, t) ==
  LET c1 == IF c.n.networkState # m.network_state /\ m.network_state # "null"
            THEN [c EXCEPT !.n.networkState = m.network_state]
            ELSE c
      c2 == IF c1.n.peers # m.peers \/ c1.n.txcount # m.txcount
            THEN Emit([c1 EXCEPT !.n.peers = m.peers, !.n.txcount = m.txcount], "stats")
            ELSE c1
      c3 == IF FinalizedApplies(c2.n.finalized, m)
            THEN Emit([c2 EXCEPT !.n.finalized =
                                   Block(m.finalized_height, m.finalized_hash)],
                      "finalized")
            ELSE c2
  IN IF m.hw /\ m.hwChange THEN Emit(c3, "hardware") ELSE c3

onNotifyFinalized(c, m) ==
  LET cache == initialiseConsensusView(c.n.consensusCache, m.height, c.n.address)
      addr  == StringOf(c.n.address)
      c1    == [c EXCEPT !.n.consensusCache = cache]
  IN IF ~HasInfo(cache, m.height, addr) THEN Throw(c1)
     ELSE Emit([c1 EXCEPT !.n.consensusCache[m.height][addr].FinalizedHash = m.hash],
               "consensus-info")

markFinalized(c, finalizedHeight, finalizedHash) ==
  LET cache == initialiseConsensusView(c.n.consensusCache, finalizedHeight, c.n.address)
      addr  == StringOf(c.n.address)
      c1    == [c EXCEPT !.n.consensusCache = cache]
  IN IF ~HasInfo(cache, finalizedHeight, addr) THEN Throw(c1)
     ELSE [c1 EXCEPT !.n.consensusCache[finalizedHeight][addr] =
                        FinalizedInfo(@, finalizedHeight, finalizedHash)]

onAfgFinalized(c, m) ==
  LET c1 == markFinalized(c, m.height, m.hash)
  IN IF c1.threw THEN c1
     ELSE Emit(backfill(c1, c1.n.address, m.height, "finalized"), "consensus-info")

onAfgReceivedPrecommit(c, m) ==
  LET voter == extractVoter(m.voter)
      cache == initialiseConsensusView(c.n.consensusCache, m.height, voter)
      c1    == [c EXCEPT !.n.consensusCache = cache]
  IN IF ~HasInfo(cache, m.height, voter) THEN Throw(c1)
     ELSE Emit(backfill([c1 EXCEPT !.n.consensusCache[m.height][voter].Precommit = TRUE],
                        voter, m.height, "precommit"),
               "consensus-info")

onAfgReceivedPrevote(c, m) ==
  LET voter == extractVoter(m.voter)
      cache == initialiseConsensusView(c.n.consensusCache, m.height, voter)
      c1    == [c EXCEPT !.n.consensusCache = cache]
  IN IF ~HasInfo(cache, m.height, voter) THEN Throw(c1)
     ELSE Emit(backfill([c1 EXCEPT !.n.consensusCache[m.height][voter].Prevote = TRUE],
                        voter, m.height, "prevote"),
               "consensus-info")

onAfgAuthoritySet(c, m) ==
  IF ~JSONvalid(m.authorities) THEN Throw(c)
  ELSE LET authorities == JSONparse(m.authorities)
           c1 == IF \/ JSONstringify(c.n.authorities) # m.authorities
                    \/ c.n.authoritySetId # m.authority_set_id
                 THEN Emit(c, "authority-set-changed")
                 ELSE c
       IN [c1 EXCEPT !.n.authorities = authorities]

\* onMessage without its closing truncateBlockCache
onMessageBody(c, m, t) ==
  LET c0 == [c EXCEPT !.n.lastMessage = t]
      update == getBestBlock(m)
      c1 == IF update.present THEN updateBestBlock(c0, update, t) ELSE c0
  IN CASE m.msg = "system.interval"        -> onSystemInterval(c1, m, t)
       [] m.msg = "notify.finalized"       -> onNotifyFinalized(c1, m)
       [] m.msg = "afg.finalized"          -> onAfgFinalized(c1, m)
       [] m.msg = "afg.received_precommit" -> onAfgReceivedPrecommit(c1, m)
       [] m.msg = "afg.received_prevote"   -> onAfgReceivedPrevote(c1, m)
       [] m.msg = "afg.authority_set"      -> onAfgAuthoritySet(c1, m)
       [] OTHER                            -> c1

onMessage(c, m, t) ==
  LET c1 == onMessageBody([c EXCEPT !.handled = IF m.id # 0 THEN Append(@, m.id) ELSE @],
                          m, t)
  IN IF c1.threw THEN c1 ELSE truncateBlockCache(c1)

\* for (const message of messages) this.onMessage(message): a throw ends the loop
RECURSIVE replay(_, _, _)
replay(c, msgs, t) ==
  IF msgs = << >> \/ c.threw THEN c
  ELSE replay(onMessage(c, Head(msgs), t), Tail(msgs), t)

updateLatency(c, t, pingFails) ==
  LET c1 == [c EXCEPT !.n.pingStart = t]
  IN IF pingFails THEN disconnect(c1)
     ELSE [c1 EXCEPT !.pings = Append(@, t)]

\* timeoutCheck with <= for <
timeoutCheckInclusive(c, t, pingFails) ==
  IF c.n.lastMessage + TIMEOUT <= t THEN disconnect(c)
  ELSE updateLatency(c, t, pingFails)

timeoutCheck(c, t, pingFails) ==
  IF c.n.lastMessage + TIMEOUT < t THEN disconnect(c)
  ELSE updateLatency(c, t, pingFails)

----------------------------------------------------------------------------
(* Steps *)

\* the running handler's view of the state as it starts
Ctx ==
  [ n |-> node, ev |-> << >>, threw |-> FALSE, timers |-> blockTimer, bf |-> << >>,
    prunes |-> << >>, applied |-> FALSE,
    listening |-> listening, closed |-> socketClosed, pings |-> pings,
    handled |-> processed ]

RECURSIVE Count(_, _)
Count(s, e) ==
  IF s = << >> THEN 0 ELSE (IF Head(s) = e THEN 1 ELSE 0) + Count(Tail(s), e)

\* the state a handler that ended in context c leaves
Commit(c) ==
  /\ node' = c.n
  /\ emitted' = c.ev
  /\ threw' = c.threw
  /\ blockTimer' = c.timers
  /\ bf' = c.bf
  /\ prunes' = c.prunes
  /\ applied' = c.applied
  /\ blockAt' = IF Count(c.ev, "block") > 0 THEN now ELSE blockAt
  /\ listening' = c.listening
  /\ socketClosed' = c.closed
  /\ pings' = c.pings
  /\ processed' = c.handled
  /\ disconnects' = disconnects + Count(c.ev, "disconnect")

\* an operation on a message m: its name, the message's kind and authority set,
\* and whether the ping it sent failed
Op(op, m, fail) ==
  [ op |-> op, msg |-> m.msg, authorities |-> m.authorities,
    authority_set_id |-> m.authority_set_id, fail |-> fail ]

\* socket.on('message') of the constructor, for socket data d. EventEmitter calls
\* a listener synchronously, and the listener is attached from the constructor on:
\* a frame the socket reads in the same chunk as system.connected reaches it before
\* the process.nextTick callback runs.
Receive(d) ==
  /\ phase = "active" /\ listening
  /\ LET m == parseMessage(d)
     IN IF m.msg = "null"
        THEN /\ Commit(Ctx)
             /\ lastOp' = Op("dropped", d, FALSE)
        ELSE /\ Commit(onMessage(Ctx, m, now))
             /\ lastOp' = Op("message", m, FALSE)
  /\ UNCHANGED << phase, hsTimer, hsHandler, outcomes, messages, replayPending, now >>

\* a message arrives at an active session
SocketMessage(d) ==
  /\ Receive(d)
  /\ UNCHANGED arrived

\* a message arrives at an active session and is given its arrival number
NumberedMessage(d) ==
  /\ arrived < MaxArrivals
  /\ arrived' = arrived + 1
  /\ Receive([d EXCEPT !.id = arrived + 1])

\* cleanup() of fromSocket with removeAllListeners('message') left out
cleanupKeepsHandler == [hsTimer |-> FALSE, hsHandler |-> TRUE]

\* cleanup() of fromSocket: clearTimeout(timeout), removeAllListeners('message')
cleanup == [hsTimer |-> FALSE, hsHandler |-> FALSE]

\* resolve / reject of fromSocket's promise: a settled promise keeps its state
Settle(p, outcome) == IF p = "handshaking" THEN outcome ELSE p

\* what a step outside the Node's handlers leaves of the record of the last step
NoHandler ==
  /\ emitted' = << >> /\ threw' = FALSE /\ bf' = << >> /\ prunes' = << >>
  /\ applied' = FALSE
  /\ UNCHANGED << blockTimer, pings, now, disconnects, processed, blockAt >>

\* handler(data) of fromSocket, for the data of the next arrival
HandshakeMessage(d) ==
  /\ hsHandler
  /\ arrived < MaxArrivals
  /\ arrived' = arrived + 1
  /\ LET m == parseMessage([d EXCEPT !.id = arrived + 1])
     IN IF m.msg = "null" \/ m.msg = ""
        THEN /\ lastOp' = Op("dropped", d, FALSE)
             /\ UNCHANGED << phase, hsTimer, hsHandler, outcomes, messages, replayPending,
                             listening, node >>
        ELSE IF m.msg = "system.connected"
        THEN /\ hsTimer' = cleanup.hsTimer
             /\ hsHandler' = cleanup.hsHandler
             /\ node' = NewNode(m.pubkey, now)
             /\ listening' = TRUE
             /\ replayPending' = TRUE
             /\ phase' = Settle(phase, "active")
             /\ outcomes' = Append(outcomes, "resolve")
             /\ lastOp' = Op("connected", m, FALSE)
             /\ UNCHANGED messages
        ELSE /\ messages' = Append(IF Len(messages) = HANDSHAKE_BUFFER
                                   THEN Tail(messages) ELSE messages, m)
             /\ lastOp' = Op("buffered", m, FALSE)
             /\ UNCHANGED << phase, hsTimer, hsHandler, outcomes, replayPending,
                             listening, node >>
  /\ UNCHANGED socketClosed
  /\ NoHandler

\* the 5 s timeout of fromSocket fires: cleanup, close, terminate, reject
HandshakeTimeout ==
  /\ hsTimer
  /\ hsTimer' = cleanup.hsTimer
  /\ hsHandler' = cleanup.hsHandler
  /\ socketClosed' = TRUE
  /\ phase' = Settle(phase, "rejected")
  /\ outcomes' = Append(outcomes, "reject")
  /\ lastOp' = Op("handshakeTimeout", Msg("null"), FALSE)
  /\ UNCHANGED << messages, replayPending, listening, node, arrived >>
  /\ NoHandler

\* data arrives on a socket that has no 'message' listener: nothing handles it
UnheardMessage(d) ==
  /\ ~hsHandler /\ ~listening
  /\ arrived < MaxArrivals
  /\ arrived' = arrived + 1
  /\ lastOp' = Op("unheard", d, FALSE)
  /\ UNCHANGED << phase, hsTimer, hsHandler, outcomes, messages, replayPending,
                  listening, node, socketClosed >>
  /\ NoHandler

\* the process.nextTick callback of the constructor
ReplayTick ==
  /\ phase = "active" /\ replayPending
  /\ replayPending' = FALSE
  /\ Commit(replay(Ctx, messages, now))
  /\ lastOp' = Op("replay", Msg("null"), FALSE)
  /\ UNCHANGED << phase, hsTimer, hsHandler, outcomes, messages, now, arrived >>

\* timeoutCheck(now), called by the owner of the session; the ping it sends may throw
TimeoutCheck(pingFails) ==
  /\ phase = "active" /\ ~replayPending
  /\ disconnects < MaxDisconnects
  /\ Len(pings) < MaxPings
  /\ Commit(timeoutCheck(Ctx, now, pingFails))
  /\ lastOp' = Op("timeoutCheck", Msg("null"), pingFails)
  /\ UNCHANGED << phase, hsTimer, hsHandler, outcomes, messages, replayPending, now, arrived >>

\* socket.on('pong'): the answer to the oldest ping in flight
Pong ==
  /\ phase = "active" /\ listening
  /\ pings # << >>
  /\ Commit([Ctx EXCEPT !.n.latency = now - node.pingStart,
                        !.n.pingStart = 0,
                        !.pings = Tail(@)])
  /\ lastOp' = Op("pong", Msg("null"), FALSE)
  /\ UNCHANGED << phase, hsTimer, hsHandler, outcomes, messages, replayPending, now, arrived >>

\* socket.on('close')
SocketClose ==
  /\ phase = "active" /\ listening
  /\ disconnects < MaxDisconnects
  /\ Commit(disconnect(Ctx))
  /\ lastOp' = Op("close", Msg("null"), FALSE)
  /\ UNCHANGED << phase, hsTimer, hsHandler, outcomes, messages, replayPending, now, arrived >>

\* socket.on('error')
SocketError ==
  /\ phase = "active" /\ listening
  /\ disconnects < MaxDisconnects
  /\ Commit(disconnect(Ctx))
  /\ lastOp' = Op("error", Msg("null"), FALSE)
  /\ UNCHANGED << phase, hsTimer, hsHandler, outcomes, messages, replayPending, now, arrived >>

\* the setTimeout callback of updateBestBlock, at or after its time
BlockTimerFire ==
  /\ blockTimer # << >>
  /\ Head(blockTimer) <= now
  /\ Commit(Emit([Ctx EXCEPT !.timers = Tail(@), !.n.throttle = FALSE], "block"))
  /\ lastOp' = Op("blockTimer", Msg("null"), FALSE)
  /\ UNCHANGED << phase, hsTimer, hsHandler, outcomes, messages, replayPending, now, arrived >>

\* d milliseconds pass, up to the time limit
Tick(d, limit) ==
  /\ now + d <= limit
  /\ now' = now + d
  /\ Commit(Ctx)
  /\ lastOp' = Op("tick", Msg("null"), FALSE)
  /\ UNCHANGED << phase, hsTimer, hsHandler, outcomes, messages, replayPending, arrived >>

\* resetCache()
ResetCache ==
  /\ phase = "active" /\ ~replayPending
  /\ node.consensusCache # [h \in {} |-> EmptyRow]
  /\ Commit([Ctx EXCEPT !.n.consensusCache = [h \in {} |-> EmptyRow]])
  /\ lastOp' = Op("resetCache", Msg("null"), FALSE)
  /\ UNCHANGED << phase, hsTimer, hsHandler, outcomes, messages, replayPending, now, arrived >>

----------------------------------------------------------------------------
(* The consensus cache under consensus messages *)

Quote == "\""

\* the hashes of finalized blocks and of best blocks
FinalizedHashes == {"f1"}
BestHashes == {"b1"}

\* the voter fields of vote messages, as the producer quotes them
Voters == { << Quote, "b", Quote >> }

Heights == 0..MaxHeight

\* afg.finalized and the two vote messages at every height
VoteMsgs ==
     { [Msg("afg.finalized") EXCEPT !.height = h, !.hash = f] :
         h \in Heights, f \in FinalizedHashes }
  \cup
     { [Msg(k) EXCEPT !.height = h, !.voter = v] :
         k \in {"afg.received_precommit", "afg.received_prevote"}, h \in Heights, v \in Voters }

\* notify.finalized at every height
NotifyMsgs ==
  { [Msg("notify.finalized") EXCEPT !.height = h, !.hash = f] :
      h \in Heights, f \in FinalizedHashes }

\* block.import: a message that only carries a best-block observation, here of one
\* of the two highest heights
ImportMsgs ==
  { [Msg("block.import") EXCEPT !.update = BestBlock(h, b, 0)] :
      h \in {MaxHeight - 1, MaxHeight}, b \in BestHashes }

\* a session right after its construction, with address a, from a handshake that
\* buffered nothing
InitActive(a) ==
  /\ phase = "active"
  /\ hsTimer = FALSE
  /\ hsHandler = FALSE
  /\ outcomes = << "resolve" >>
  /\ messages = << >>
  /\ replayPending = FALSE
  /\ listening = TRUE
  /\ socketClosed = FALSE
  /\ now = 1
  /\ node = NewNode(a, 1)
  /\ blockTimer = << >>
  /\ pings = << >>
  /\ emitted = << >>
  /\ threw = FALSE
  /\ disconnects = 0
  /\ arrived = 0
  /\ processed = << >>
  /\ lastOp = Op("new", Msg("null"), FALSE)
  /\ bf = << >>
  /\ prunes = << >>
  /\ applied = FALSE
  /\ blockAt = NoNum

\* Spec: a session that has an address, under votes, finalizations and imports
Init == InitActive(<< "a" >>)

Next ==
  \/ \E m \in VoteMsgs \cup ImportMsgs : SocketMessage(m)
  \/ ResetCache

Spec == Init /\ [][Next]_vars

\* SpecAbsent: a session whose address is absent, under finalizations and votes
InitAbsent == InitActive(NULL)

NextAbsent ==
  \/ \E m \in VoteMsgs \cup NotifyMsgs : SocketMessage(m)
  \/ ResetCache

SpecAbsent == InitAbsent /\ [][NextAbsent]_vars

----------------------------------------------------------------------------
(* Claims about the consensus cache *)

\* the last step was a message that onMessage handled to its end
Handled == lastOp.op = "message" /\ ~threw

\* C1: after onMessage has handled a message, the consensus cache holds at most
\* MAX_BLOCKS_IN_NODE_CACHE distinct heights.
C1_CacheBound ==
  Handled => Cardinality(DOMAIN node.consensusCache) <= MAX_BLOCKS_IN_NODE_CACHE

\* C6: on a session whose address is absent, handling notify.finalized or
\* afg.finalized does not throw.
C6_AbsentAddressNoThrow ==
  ( /\ lastOp.op = "message"
    /\ lastOp.msg \in {"notify.finalized", "afg.finalized"}
    /\ node.address = NULL )
  => ~threw

\* C10: a backfill call from height H made while height H - 1 has no row returns H
\* and creates no row (so none below H).
C10_BackfillGapSafety ==
  \A i \in 1..Len(bf) :
    (bf[i].from - 1) \notin bf[i].pre
    => /\ bf[i].ret = bf[i].from
       /\ bf[i].post = bf[i].pre

\* a vote or finalization at H was handled with no row at H - 1, a row below that and
\* a voter present: the call that only the check of height H - 1 stops
C10_Witness ==
  \E i \in 1..Len(bf) :
    /\ bf[i].f # "null"
    /\ Truthy(bf[i].voter)
    /\ (bf[i].from - 1) \notin bf[i].pre
    /\ \E h \in bf[i].pre : h < bf[i].from - 1
    /\ lastOp.op = "message" /\ ~threw

\* the i-th backfill call of the last step passed its three early returns and walked
Walked(i) ==
  /\ Truthy(bf[i].voter)
  /\ Cardinality(bf[i].pre) > 1
  /\ (bf[i].from - 1) \in bf[i].pre

\* the first height below H that has a row when backfill is called from H
FirstRowBelow(i) ==
  CHOOSE h \in bf[i].pre :
    h < bf[i].from /\ \A k \in bf[i].pre : k < bf[i].from => k <= h

\* C11: a backfill call that walks down from H returns the first height below H that
\* has a row, leaves that row as it was and creates no row below it.
C11_StopOnExisting ==
  \A i \in 1..Len(bf) :
    Walked(i)
    => /\ bf[i].ret = FirstRowBelow(i)
       /\ bf[i].ret \notin bf[i].changed
       /\ \A h \in bf[i].post : h < bf[i].ret => h \in bf[i].pre

\* a vote at H was handled with rows at H - 1 and below it: backfill walked
C11_Witness ==
  \E i \in 1..Len(bf) :
    /\ Walked(i)
    /\ bf[i].f \in {"precommit", "prevote"}
    /\ \E h \in bf[i].pre : h < bf[i].from - 1
    /\ ~threw

----------------------------------------------------------------------------
(* SpecOwnVotes: a session that receives its own votes and finalizations *)

\* afg.finalized, and the votes whose voter is the session's own address; the
\* specification adds notify.finalized
OwnVoteMsgs ==
     { m \in VoteMsgs : m.msg = "afg.finalized" }
  \cup
     { [Msg(k) EXCEPT !.height = h, !.voter = << Quote, "a", Quote >>] :
         k \in {"afg.received_precommit", "afg.received_prevote"}, h \in Heights }

NextOwnVotes ==
  \/ \E m \in OwnVoteMsgs \cup NotifyMsgs : SocketMessage(m)
  \/ ResetCache

SpecOwnVotes == Init /\ [][NextOwnVotes]_vars

\* the (height, voter) records that exist both before and after a step
KeptRecords ==
  { hv \in (DOMAIN node.consensusCache) \X {<< "a" >>, << "b" >>} :
      /\ HasInfo(node.consensusCache, hv[1], hv[2])
      /\ HasInfo(node'.consensusCache, hv[1], hv[2]) }

\* C12: no message-handling step sets ImplicitPrevote, ImplicitPrecommit or
\* ImplicitFinalized on a (height, voter) record whose explicit flag of the same
\* kind was true before the step.
C12_ImplicitNonRegression ==
  [][ lastOp'.op = "message"
      => \A hv \in KeptRecords :
           LET old == node.consensusCache[hv[1]][hv[2]]
               new == node'.consensusCache[hv[1]][hv[2]]
           IN /\ (old.Prevote /\ ~old.ImplicitPrevote) => ~new.ImplicitPrevote
              /\ (old.Precommit /\ ~old.ImplicitPrecommit) => ~new.ImplicitPrecommit
              /\ (old.Finalized /\ ~old.ImplicitFinalized) => ~new.ImplicitFinalized ]_vars

\* the backfill of afg.finalized at H walked onto height H - 1, where the session's
\* own record has an explicit vote and is not finalized
C12_Witness ==
  \E i \in 1..Len(bf) :
    /\ Walked(i)
    /\ bf[i].f = "finalized"
    /\ HasInfo(node.consensusCache, bf[i].ret, bf[i].voter)
    /\ LET info == node.consensusCache[bf[i].ret][bf[i].voter]
       IN /\ info.Prevote /\ ~info.Finalized /\ ~info.ImplicitPrevote
    /\ ~threw

\* C14: every height a prune at the end of onMessage removes is lower than every
\* height it keeps.
C14_PruneKeepsHighest ==
  \A i \in 1..Len(prunes) :
    \A r \in prunes[i].removed : \A k \in prunes[i].kept : r < k

\* a message at a height below the rows of the cache was handled, and the prune
\* removed a height
C14_Witness ==
  /\ lastOp.op = "message" /\ ~threw
  /\ \E i \in 1..Len(prunes) :
       /\ prunes[i].removed # {}
       /\ Cardinality(prunes[i].kept) = MAX_BLOCKS_IN_NODE_CACHE + 2
       /\ prunes[i].kept = DOMAIN node.consensusCache

\* every record of the consensus cache, as << height, voter >>
Records ==
  { hv \in (DOMAIN node.consensusCache) \X {<< "a" >>, << "b" >>} :
      HasInfo(node.consensusCache, hv[1], hv[2]) }

C20_FinalizedImpliesVotes ==
  \A hv \in Records :
    LET info == node.consensusCache[hv[1]][hv[2]]
    IN info.Finalized => info.Prevote /\ info.Precommit

\* notify.finalized has been handled for a height the session had finalized
C20_Witness ==
  /\ lastOp.op = "message" /\ lastOp.msg = "notify.finalized" /\ ~threw
  /\ \E hv \in Records :
       LET info == node.consensusCache[hv[1]][hv[2]]
       IN info.Finalized /\ info.FinalizedHeight = hv[1] /\ hv[1] > 0

----------------------------------------------------------------------------
(* SpecSession: the idle timeout, pings and disconnects of one session *)

\* a message of a kind onMessage has no handler for
Heartbeat == Msg("other")

\* the clock of this model moves by 1 ms, at most MaxShortTicks times in a row, and
\* by TIMEOUT
NextSession ==
  \/ (now - 1) % TIMEOUT < MaxShortTicks /\ Tick(1, MaxNow)
  \/ Tick(TIMEOUT, MaxNow)
  \/ \E pingFails \in BOOLEAN : TimeoutCheck(pingFails)
  \/ Pong
  \/ SocketClose
  \/ SocketError
  \/ SocketMessage(Heartbeat)

SpecSession == Init /\ [][NextSession]_vars

\* C2: whatever close events, error events, timeoutCheck calls and ping failures a
\* session sees, 'disconnect' is emitted at most once.
C2_DisconnectOnce == disconnects <= 1

\* C5: a timeoutCheck on a session that has not timed out, made while a ping is
\* outstanding (pingStart # 0), leaves pingStart unchanged and sends no ping.
C5_PingOnlyWhenIdle ==
  [][ ( /\ lastOp'.op = "timeoutCheck"
        /\ ~(node.lastMessage + TIMEOUT < now)
        /\ node.pingStart # 0 )
      => /\ node'.pingStart = node.pingStart
         /\ pings' = pings ]_vars

\* C16: the latency a pong records is the time of the pong minus the time at which
\* the matching ping (the oldest one not yet answered) was sent.
C16_LatencyMatchesPing ==
  [][ lastOp'.op = "pong" => node'.latency = now - Head(pings) ]_vars

\* C17: timeoutCheck(now) disconnects exactly when now - lastMessage > TIMEOUT or the
\* ping send throws; with an idle time of TIMEOUT or less it sends a ping, and with
\* a greater one it sends none.
C17_TimeoutBoundary ==
  [][ lastOp'.op = "timeoutCheck"
      => LET idle == now - node.lastMessage
         IN /\ (Count(emitted', "disconnect") >= 1) <=> (idle > TIMEOUT \/ lastOp'.fail)
            /\ (idle <= TIMEOUT /\ ~lastOp'.fail) => pings' = Append(pings, now)
            /\ idle > TIMEOUT => pings' = pings ]_vars

\* timeoutCheck ran at an idle time of exactly TIMEOUT and sent a ping
C17_Witness ==
  /\ lastOp.op = "timeoutCheck" /\ ~lastOp.fail
  /\ now - node.lastMessage = TIMEOUT
  /\ pings = << now >>
  /\ disconnects = 0

----------------------------------------------------------------------------
(* SpecBlocks: best-block updates, the coalescing timer and disconnects *)

\* the times (ts) best-block observations carry
BlockTimes == {0, 100, 201}

BlockMsgs ==
  { [Msg("block.import") EXCEPT !.update = BestBlock(h, b, ts)] :
      h \in Heights, b \in {"b1", "b2"}, ts \in BlockTimes }

NextBlocks ==
  \/ \E m \in BlockMsgs : SocketMessage(m)
  \/ Tick(COALESCE_WINDOW, MaxBlockNow)
  \/ BlockTimerFire
  \/ SocketClose
  \/ SocketError

SpecBlocks == Init /\ [][NextBlocks]_vars

\* C3: once the session has disconnected, no step emits 'block'.
C3_NoBlockAfterDisconnect ==
  [][ disconnects >= 1 => Count(emitted', "block") = 0 ]_vars

\* C8: best.number never decreases, and best changes only by a message whose hash
\* differs from best.hash and whose height is >= best.number (a same-height change
\* changes the hash alone).
C8_BestMonotonic ==
  [][ /\ node'.best.number >= node.best.number
      /\ node'.best # node.best
         => /\ lastOp'.op = "message"
            /\ node'.best.hash # node.best.hash
            /\ node'.best.number >= node.best.number ]_vars

\* a second best block has been applied over a first one
C8_Witness ==
  /\ lastOp.op = "message"
  /\ node.best.number > 0
  /\ node.best.hash = "b2"
  /\ node.blockTime > BLOCK_TIME_THRESHOLD

----------------------------------------------------------------------------
(* SpecBurst: best-block updates whose block times are all <= 100 ms *)

\* the times (ts) of a burst: any two are at most BLOCK_TIME_THRESHOLD apart
BurstTimes == {0, 10, 100}

BurstMsgs ==
  { [Msg("block.import") EXCEPT !.update = BestBlock(h, b, ts)] :
      h \in Heights, b \in {"b1", "b2"}, ts \in BurstTimes }

NextBurst ==
  \/ \E m \in BurstMsgs : SocketMessage(m)
  \/ Tick(BurstStep, MaxBlockNow)
  \/ BlockTimerFire

SpecBurst == Init /\ [][NextBurst]_vars

\* C13: under best-block updates whose block times are all <= 100 ms, a message
\* handled while a coalescing timer is pending starts no timer and emits no 'block';
\* at most one timer is pending, and two 'block' events are at least
\* COALESCE_WINDOW ms apart.
C13_Coalescing ==
  [][ /\ (lastOp'.op = "message" /\ blockTimer # << >>)
         => (blockTimer' = blockTimer /\ Count(emitted', "block") = 0)
      /\ Len(blockTimer') <= 1
      /\ Count(emitted', "block") <= 1
      /\ (Count(emitted', "block") = 1 /\ blockAt # NoNum)
         => now - blockAt >= COALESCE_WINDOW ]_vars

\* after a first 'block' event, an update was applied while the next timer was
\* already pending
C13_Witness ==
  /\ lastOp.op = "message" /\ applied
  /\ blockAt # NoNum
  /\ blockTimer # << >>
  /\ Head(blockTimer) < now + COALESCE_WINDOW
  /\ Count(emitted, "block") = 0

----------------------------------------------------------------------------
(* SpecBlocksLive: best-block updates under timers that fire *)

\* messages arrive while a timer they start can still come due on the model's clock
NextBlocksLive ==
  \/ /\ now + COALESCE_WINDOW <= MaxBlockNow
     /\ \E m \in BlockMsgs : SocketMessage(m)
  \/ Tick(COALESCE_WINDOW, MaxBlockNow)
  \/ BlockTimerFire
  \/ SocketClose

\* time passes, and a timer that has come due runs its callback
SpecBlocksLive ==
  /\ Init
  /\ [][NextBlocksLive]_vars
  /\ WF_vars(Tick(COALESCE_WINDOW, MaxBlockNow))
  /\ WF_vars(BlockTimerFire)

\* C19: every applied best-block update is followed by a 'block' event, in the same
\* step or a later one.
C19_EventuallyBlock ==
  (lastOp.op = "message" /\ applied) ~> (Count(emitted, "block") > 0)

\* an update was applied without an event of its own, under a timer that an earlier
\* update had started
C19_Witness ==
  /\ lastOp.op = "message" /\ applied
  /\ Count(emitted, "block") = 0
  /\ node.throttle
  /\ blockTimer # << >> /\ Head(blockTimer) = now

----------------------------------------------------------------------------
(* SpecChain: system.interval among the other message kinds *)

IntervalMsgs ==
     { [Msg("system.interval") EXCEPT !.finalized_height = h, !.finalized_hash = f,
                                      !.peers = p] :
         h \in {NoNum} \cup Heights, f \in {NoHash, "f1", "f2"}, p \in {0, 1} }
  \cup
     { [Msg("system.interval") EXCEPT !.update = BestBlock(1, "b1", 0),
                                      !.network_state = "connected",
                                      !.hw = TRUE, !.hwChange = TRUE] }

\* the finalization and vote messages at the highest height
EdgeMsgs ==
  { m \in VoteMsgs \cup NotifyMsgs : m.height = MaxHeight }

NextChain ==
  \/ \E m \in IntervalMsgs \cup EdgeMsgs : SocketMessage(m)

SpecChain == Init /\ [][NextChain]_vars

\* C9: finalized.number never decreases, and finalized changes only by a
\* system.interval message that carries a hash and a strictly greater height.
C9_FinalizedMonotonic ==
  [][ /\ node'.finalized.number >= node.finalized.number
      /\ node'.finalized # node.finalized
         => /\ lastOp'.op = "message"
            /\ lastOp'.msg = "system.interval"
            /\ node'.finalized.hash # NoHash
            /\ node'.finalized.number > node.finalized.number ]_vars

\* system.interval has replaced a finalized block by a higher one
C9_Witness ==
  /\ lastOp.op = "message" /\ lastOp.msg = "system.interval"
  /\ Count(emitted, "finalized") = 1
  /\ node.finalized.number > 1

----------------------------------------------------------------------------
(* SpecAuthority: afg.authority_set messages, numbered as they arrive *)

\* the authority lists as the producer encodes them
AuthorityEncodings ==
  { << "[", "]" >>,
    << "[", " ", "]" >>,
    << "[", Quote, "a", Quote, "]" >>,
    << "[", Quote, "a", Quote, ",", Quote, "b", Quote, "]" >>,
    << "[", Quote, "a", Quote, ",", " ", Quote, "b", Quote, "]" >>,
    << "[" >> }

AuthorityMsgs ==
  { [Msg("afg.authority_set") EXCEPT !.authorities = e, !.authority_set_id = i] :
      e \in AuthorityEncodings, i \in {0, 1} }

NextAuthority ==
  \/ \E m \in AuthorityMsgs : NumberedMessage(m)

SpecAuthority == Init /\ [][NextAuthority]_vars

\* C4: of two afg.authority_set messages handled in succession with the same
\* encoded list and the same set id, the second emits no 'authority-set-changed'.
C4_SameSetEmitsOnce ==
  [][ ( /\ lastOp.op = "message" /\ lastOp.msg = "afg.authority_set" /\ ~threw
        /\ lastOp'.op = "message" /\ lastOp'.msg = "afg.authority_set"
        /\ lastOp'.authorities = lastOp.authorities
        /\ lastOp'.authority_set_id = lastOp.authority_set_id )
      => Count(emitted', "authority-set-changed") = 0 ]_vars

----------------------------------------------------------------------------
(* SpecHandshake: fromSocket, the replay of its buffer and the first live messages *)

InitHandshake ==
  /\ phase = "handshaking"
  /\ hsTimer = TRUE
  /\ hsHandler = TRUE
  /\ outcomes = << >>
  /\ messages = << >>
  /\ replayPending = FALSE
  /\ listening = FALSE
  /\ socketClosed = FALSE
  /\ now = 1
  /\ node = NewNode(NULL, 0)
  /\ blockTimer = << >>
  /\ pings = << >>
  /\ emitted = << >>
  /\ threw = FALSE
  /\ disconnects = 0
  /\ arrived = 0
  /\ processed = << >>
  /\ lastOp = Op("fromSocket", Msg("null"), FALSE)
  /\ bf = << >>
  /\ prunes = << >>
  /\ applied = FALSE
  /\ blockAt = NoNum

\* what a connection sends: the identity message, another message, a message with no
\* msg field, data that does not decode
ConnectionData ==
  { [Msg("system.connected") EXCEPT !.pubkey = << "a" >>],
    Heartbeat,
    Msg(""),
    [Heartbeat EXCEPT !.valid = FALSE] }

NextHandshake ==
  \/ \E d \in ConnectionData : HandshakeMessage(d)
  \/ HandshakeTimeout
  \/ ReplayTick
  \/ \E d \in {Heartbeat, [Heartbeat EXCEPT !.valid = FALSE]} : NumberedMessage(d)
  \/ \E d \in ConnectionData : UnheardMessage(d)

SpecHandshake == InitHandshake /\ [][NextHandshake]_vars

\* C7: onMessage handles the messages of a session in the order they arrived: the
\* buffered ones first, in their order, then the live ones.
C7_ArrivalOrder ==
  \A i, j \in 1..Len(processed) : i < j => processed[i] < processed[j]

\* C15: a handshake has one outcome. Either system.connected arrived first: the
\* promise is resolved with a session and the timer is cleared; or the timer fired
\* first: the socket is closed, the promise is rejected, and no session is created,
\* whatever arrives later.
C15_OneOutcome ==
  /\ Len(outcomes) <= 1
  /\ outcomes = << >> => (phase = "handshaking" /\ hsTimer /\ hsHandler)
  /\ outcomes = << "resolve" >>
     => (phase = "active" /\ ~hsTimer /\ ~hsHandler /\ node.address = << "a" >>)
  /\ outcomes = << "reject" >>
     => ( /\ phase = "rejected" /\ ~hsTimer /\ ~hsHandler
          /\ socketClosed /\ ~listening /\ ~replayPending
          /\ node = NewNode(NULL, 0) /\ processed = << >> )

\* system.connected has arrived after the timeout
C15_Witness ==
  /\ phase = "rejected"
  /\ lastOp.op = "unheard" /\ lastOp.msg = "system.connected"
  /\ messages # << >>

====
